---- MODULE Spec2Model ----
(***************************************************************************)
(* Member-level parser for class-like bodies                               *)
(* (src/parser/internal/classish_statements.rs).                           *)
(*                                                                         *)
(* The parser state is the token stream read so far and the cursor into    *)
(* it.  The lexer is modelled on demand: a token is fixed when the parser  *)
(* first looks at it (as state.current after state.next(), or as           *)
(* state.peek), so every input of at most MaxTokens tokens is explored.    *)
(* One call of an entry point (interface_statement, unit_enum_member,      *)
(* backed_enum_member, class_like_statement) is followed from its first    *)
(* line to its return; pc holds the source position as "function:line".    *)
(* An expression is a single literal token.                                *)
(***************************************************************************)
EXTENDS Naturals, Sequences, FiniteSets

VARIABLES
    tokens,   \* the token stream the parser has looked at so far
    pos,      \* index of state.current in tokens; state.peek is tokens[pos + 1]
    scope,    \* innermost Scope frame of the parser state
    fn,       \* the entry point the body loop called
    pc,       \* position inside the running call
    local,    \* the local variables of the running call
    result    \* the ParseResult returned to the body loop

vars == <<tokens, pos, scope, fn, pc, local, result>>

\* Longest input, in tokens, the lexer produces before the end-of-file token.
MaxTokens == 11

-----------------------------------------------------------------------------
(* Tokens *)

Identifiers == {"A", "B"}
Variables == {"$x"}
Literals == {"1", "2"}
Visibilities == {"public", "protected", "private"}
ModifierTokens == Visibilities \cup {"static", "readonly"}
TypeTokens == {"int", "callable", "never"}
AttributeTokens == {"#[A]"}
Keywords == {"use", "const", "function", "case", "as", "insteadof"}
Punctuation == {",", ";", "{", "}", "::", "=", "(", ")"}

Alphabet ==
    Identifiers \cup Variables \cup Literals \cup ModifierTokens \cup TypeTokens
        \cup AttributeTokens \cup Keywords \cup Punctuation \cup {"eof"}

Kind(t) ==
    IF t \in Identifiers THEN "Identifier"
    ELSE IF t \in Variables THEN "Variable"
    ELSE IF t \in Literals THEN "Literal"
    ELSE t

\* The tokens the lexer may produce after the stream s.
Lexer(s) ==
    IF Len(s) >= MaxTokens \/ (s # <<>> /\ s[Len(s)] = "eof")
    THEN {"eof"}
    ELSE Alphabet

current == tokens[pos]

\* state.next(): the cursor moves on to the token the lexer produced.
next ==
    /\ pos' = pos + 1
    /\ \E t \in Lexer(tokens) : tokens' = Append(tokens, t)

\* state.next() when state.peek has been looked at and was pk
next_peeked(pk) ==
    /\ pos' = pos + 1
    /\ tokens' = Append(tokens, pk)

stay == UNCHANGED <<tokens, pos>>

-----------------------------------------------------------------------------
(* Results *)

None == "None"

Ok(statement) == [kind |-> "Ok", statement |-> statement]

Err(error) == [kind |-> "Err", error |-> error, span |-> pos, found |-> current]

\* return Err(..), or a failed `?`: the call ends at the current token.
Throw(error) ==
    /\ pc' = "done"
    /\ result' = Err(error)
    /\ stay
    /\ UNCHANGED local

\* the call goes on at position p with the locals l, not moving the cursor
Goto(p, l) ==
    /\ pc' = p
    /\ local' = l
    /\ stay
    /\ UNCHANGED result

\* the call consumes the current token and goes on at position p
Consume(p, l) ==
    /\ pc' = p
    /\ local' = l
    /\ next
    /\ UNCHANGED result

\* a failed `?` after state.peek has been looked at and was pk
ThrowPeeked(pk, error) ==
    /\ pc' = "done"
    /\ result' = Err(error)
    /\ tokens' = Append(tokens, pk)
    /\ UNCHANGED <<pos, local>>

\* the call consumes the current token, having looked at state.peek
ConsumePeeked(pk, p, l) ==
    /\ pc' = p
    /\ local' = l
    /\ next_peeked(pk)
    /\ UNCHANGED result

\* the call consumes the current token and returns Ok(statement)
Return(statement, l) ==
    /\ pc' = "done"
    /\ local' = l
    /\ next
    /\ result' = Ok(statement)

-----------------------------------------------------------------------------
(* Collaborators: scope, attributes, modifiers *)

\* The frames class_like_statement accepts; Scope::Trait and
\* Scope::AnonymousClass differ from Scope::Class only in the name rendered
\* into the diagnostics.
Scopes == {[kind |-> "Class", name |-> "C"]}

EnumScope == [kind |-> "Enum", name |-> "E"]
InterfaceScope == [kind |-> "Interface", name |-> "I"]

EntryPoints ==
    {<<"interface_statement", InterfaceScope>>,
     <<"unit_enum_member", EnumScope>>,
     <<"backed_enum_member", EnumScope>>}
        \cup {<<"class_like_statement", s>> : s \in Scopes}

\* state.named(name): the scope-qualified name used in diagnostics
named(name) == name

NoLocals ==
    [has_attributes |-> FALSE, attributes |-> <<>>, start |-> 0,
     modifiers |-> <<>>, group |-> None, ty |-> None, var |-> None,
     value |-> None, name |-> None, traits |-> <<>>, adaptations |-> <<>>,
     trait |-> None, method |-> None, visibility |-> None, insteadof |-> <<>>]

Range(s) == {s[i] : i \in 1..Len(s)}

\* where the caller goes on after attributes::gather_attributes
AfterAttributes ==
    CASE fn = "interface_statement" -> "interface_statement:31"
      [] fn = "unit_enum_member" -> "unit_enum_member:57"
      [] fn = "backed_enum_member" -> "backed_enum_member:102"
      [] fn = "class_like_statement" -> "class_like_statement:152"

\* attributes::gather_attributes: consumes the leading attribute groups
gather_attributes ==
    /\ pc = "gather_attributes"
    /\ IF current \in AttributeTokens
       THEN Consume("gather_attributes",
                    [local EXCEPT !.has_attributes = TRUE,
                                  !.attributes = Append(@, current)])
       ELSE Goto(AfterAttributes, local)

\* let start = state.current.span, just before modifiers::collect
start_span ==
    /\ pc \in {"interface_statement:31", "unit_enum_member:76",
               "backed_enum_member:130", "class_like_statement:152"}
    /\ Goto("collect", [local EXCEPT !.start = pos])

\* where the caller goes on after modifiers::collect
AfterCollect ==
    CASE fn = "interface_statement" -> "interface_statement:35"
      [] fn = "unit_enum_member" -> "unit_enum_member:80"
      [] fn = "backed_enum_member" -> "backed_enum_member:134"
      [] fn = "class_like_statement" -> "class_like_statement:155"

\* modifiers::collect: consumes the modifier tokens, rejecting a repeated
\* modifier and a second visibility
collect ==
    /\ pc = "collect"
    /\ IF current \in ModifierTokens
       THEN IF current \in Range(local.modifiers)
            THEN Throw("MultipleModifiers")
            ELSE IF current \in Visibilities
                    /\ Range(local.modifiers) \cap Visibilities # {}
            THEN Throw("MultipleAccessModifiers")
            ELSE Consume("collect",
                         [local EXCEPT !.modifiers = Append(@, current)])
       ELSE Goto(AfterCollect, local)

\* the modifiers each construct-specific validator accepts
Allowed(validator) ==
    CASE validator = "interface_method_group" -> {"public", "static"}
      [] validator = "interface_constant_group" -> {"public"}
      [] validator = "enum_method_group" -> Visibilities \cup {"static"}
      [] validator = "constant_group" -> Visibilities
      [] validator = "method_group" -> Visibilities \cup {"static"}
      [] validator = "property_group" -> Visibilities \cup {"static", "readonly"}

\* modifiers::<validator>(modifiers) succeeds
Valid(validator, modifiers) == Range(modifiers) \subseteq Allowed(validator)

Group(validator, modifiers) ==
    [validator |-> validator, modifiers |-> Range(modifiers)]

has_readonly(group) == "readonly" \in group.modifiers
has_static(group) == "static" \in group.modifiers

includes_callable(ty) == ty = "callable"
is_bottom(ty) == ty = "never"

-----------------------------------------------------------------------------
(* class_like_statement *)

\* lines 155-178: routing on the token after the modifiers
class_like_statement_dispatch ==
    /\ pc = "class_like_statement:155"
    /\ IF ~local.has_attributes /\ current = "use"
       THEN Goto("parse_classish_uses:248", local)
       ELSE IF ~local.has_attributes /\ current = "const"
       THEN IF Valid("constant_group", local.modifiers)
            THEN Goto("constant:392",
                      [local EXCEPT !.group = Group("constant_group", local.modifiers)])
            ELSE Throw("ModifierError")
       ELSE IF current = "function"
       THEN IF Valid("method_group", local.modifiers)
            THEN Goto("method:function",
                      [local EXCEPT !.group = Group("method_group", local.modifiers)])
            ELSE Throw("ModifierError")
       ELSE IF Valid("property_group", local.modifiers)
            THEN Goto("class_like_statement:180",
                      [local EXCEPT !.group = Group("property_group", local.modifiers)])
            ELSE Throw("ModifierError")

\* line 180: data_type::optional_data_type
property_type ==
    /\ pc = "class_like_statement:180"
    /\ IF current \in TypeTokens
       THEN Consume("class_like_statement:182", [local EXCEPT !.ty = current])
       ELSE Goto("class_like_statement:182", local)

\* line 182: identifiers::var
property_var ==
    /\ pc = "class_like_statement:182"
    /\ IF Kind(current) = "Variable"
       THEN Consume("class_like_statement:186", [local EXCEPT !.var = current])
       ELSE Throw("ExpectedToken")

\* lines 184-189: the optional default value
property_value ==
    \/ /\ pc = "class_like_statement:186"
       /\ IF current = "="
          THEN Consume("class_like_statement:188", local)
          ELSE Goto("class_like_statement:191", local)
    \/ /\ pc = "class_like_statement:188"
       /\ IF Kind(current) = "Literal"
          THEN Consume("class_like_statement:191", [local EXCEPT !.value = current])
          ELSE Throw("ExpectedToken")

\* lines 191-194: the owning class named in the diagnostics
class_name == named(scope.name)

PropertyError(error) ==
    [kind |-> "Err", error |-> error, span |-> pos, found |-> current,
     class |-> class_name, property |-> local.var]

\* the property checks with the type rule tried before the readonly rules
PropertyCheck_TypeFirst(group, ty, value) ==
    IF ty # None /\ (includes_callable(ty) \/ is_bottom(ty))
    THEN "ForbiddenTypeUsedInProperty"
    ELSE IF has_readonly(group) /\ has_static(group)
    THEN "StaticPropertyUsingReadonlyModifier"
    ELSE IF has_readonly(group) /\ value # None
    THEN "ReadonlyPropertyHasDefaultValue"
    ELSE IF ty = None /\ has_readonly(group)
    THEN "MissingTypeForReadonlyProperty"
    ELSE None

\* the property checks with the bottom type let through
PropertyCheck_BottomAllowed(group, ty, value) ==
    IF has_readonly(group) /\ has_static(group)
    THEN "StaticPropertyUsingReadonlyModifier"
    ELSE IF has_readonly(group) /\ value # None
    THEN "ReadonlyPropertyHasDefaultValue"
    ELSE IF ty # None /\ includes_callable(ty)
    THEN "ForbiddenTypeUsedInProperty"
    ELSE IF ty = None /\ has_readonly(group)
    THEN "MissingTypeForReadonlyProperty"
    ELSE None

\* lines 196-234: the error the property checks raise, None when they pass
PropertyCheck(group, ty, value) ==
    IF has_readonly(group) /\ has_static(group)
    THEN "StaticPropertyUsingReadonlyModifier"
    ELSE IF has_readonly(group) /\ value # None
    THEN "ReadonlyPropertyHasDefaultValue"
    ELSE IF ty # None /\ (includes_callable(ty) \/ is_bottom(ty))
    THEN "ForbiddenTypeUsedInProperty"
    ELSE IF ty = None /\ has_readonly(group)
    THEN "MissingTypeForReadonlyProperty"
    ELSE None

Property ==
    [type |-> "Property", var |-> local.var, value |-> local.value,
     ty |-> local.ty, modifiers |-> local.group,
     attributes |-> local.attributes]

\* lines 191-244: validation, the terminator, the Property statement
property_validate ==
    /\ pc = "class_like_statement:191"
    /\ LET error == PropertyCheck(local.group, local.ty, local.value) IN
       IF error # None
       THEN /\ pc' = "done"
            /\ result' = PropertyError(error)
            /\ stay
            /\ UNCHANGED local
       ELSE IF current = ";"
       THEN Return(Property, local)
       ELSE Throw("ExpectedToken")

-----------------------------------------------------------------------------
(* interface_statement *)

\* lines 35-47: a method when attributes were gathered or `function` follows,
\* a constant otherwise
interface_statement_dispatch ==
    /\ pc = "interface_statement:35"
    /\ IF local.has_attributes \/ current = "function"
       THEN IF Valid("interface_method_group", local.modifiers)
            THEN Goto("method:function",
                      [local EXCEPT !.group = Group("interface_method_group", local.modifiers)])
            ELSE Throw("ModifierError")
       ELSE IF Valid("interface_constant_group", local.modifiers)
            THEN Goto("constant:392",
                      [local EXCEPT !.group = Group("interface_constant_group", local.modifiers)])
            ELSE Throw("ModifierError")

-----------------------------------------------------------------------------
(* unit_enum_member, backed_enum_member *)

\* lines 51-53, 96-98: the enclosing enum named in the diagnostics
enum_name == scope.name

EnumError(error) ==
    [kind |-> "Err", error |-> error, span |-> pos, found |-> current,
     case |-> local.name, enum |-> named(enum_name)]

UnitEnumCase(end) ==
    [type |-> "Case", start |-> local.start, end |-> end, name |-> local.name]

BackedEnumCase(end) ==
    [type |-> "Case", start |-> local.start, end |-> end, name |-> local.name,
     value |-> local.value]

\* a unit-enum case that leaves `=` to the terminator check
UnitCaseOutcome_NoValueCheck(token) ==
    IF token = ";" THEN "Ok" ELSE "ExpectedToken"

\* lines 63-73: what follows the case name of a unit enum
UnitCaseOutcome(token) ==
    IF token = "=" THEN "CaseValueForUnitEnum"
    ELSE IF token = ";" THEN "Ok"
    ELSE "ExpectedToken"

\* lines 57-74
unit_enum_case ==
    \/ /\ pc = "unit_enum_member:57"
       /\ IF ~local.has_attributes /\ current = "case"
          THEN Consume("unit_enum_member:61", [local EXCEPT !.start = pos])
          ELSE Goto("unit_enum_member:76", local)
    \/ /\ pc = "unit_enum_member:61"
       /\ IF Kind(current) = "Identifier"
          THEN Consume("unit_enum_member:63", [local EXCEPT !.name = current])
          ELSE Throw("ExpectedToken")
    \/ /\ pc = "unit_enum_member:63"
       /\ LET outcome == UnitCaseOutcome(current) IN
          IF outcome = "CaseValueForUnitEnum"
          THEN /\ pc' = "done"
               /\ result' = EnumError("CaseValueForUnitEnum")
               /\ stay
               /\ UNCHANGED local
          ELSE IF outcome = "Ok"
          THEN Return(UnitEnumCase(pos), local)
          ELSE Throw("ExpectedToken")

\* a backed-enum case that leaves a missing value to the `=` check
BackedCaseOutcome_NoTerminatorCheck(token) ==
    IF token = "=" THEN "Ok" ELSE "ExpectedToken"

\* lines 108-116: what follows the case name of a backed enum
BackedCaseOutcome(token) ==
    IF token = ";" THEN "MissingCaseValueForBackedEnum"
    ELSE IF token = "=" THEN "Ok"
    ELSE "ExpectedToken"

\* lines 102-128
backed_enum_case ==
    \/ /\ pc = "backed_enum_member:102"
       /\ IF ~local.has_attributes /\ current = "case"
          THEN Consume("backed_enum_member:106", [local EXCEPT !.start = pos])
          ELSE Goto("backed_enum_member:130", local)
    \/ /\ pc = "backed_enum_member:106"
       /\ IF Kind(current) = "Identifier"
          THEN Consume("backed_enum_member:108", [local EXCEPT !.name = current])
          ELSE Throw("ExpectedToken")
    \/ /\ pc = "backed_enum_member:108"
       /\ LET outcome == BackedCaseOutcome(current) IN
          IF outcome = "MissingCaseValueForBackedEnum"
          THEN /\ pc' = "done"
               /\ result' = EnumError("MissingCaseValueForBackedEnum")
               /\ stay
               /\ UNCHANGED local
          ELSE IF outcome = "Ok"
          THEN Consume("backed_enum_member:118", local)
          ELSE Throw("ExpectedToken")
    \/ /\ pc = "backed_enum_member:118"
       /\ IF Kind(current) = "Literal"
          THEN Consume("backed_enum_member:120", [local EXCEPT !.value = current])
          ELSE Throw("ExpectedToken")
    \/ /\ pc = "backed_enum_member:120"
       /\ IF current = ";"
          THEN Return(BackedEnumCase(pos), local)
          ELSE Throw("ExpectedToken")

\* lines 80-92, 134-146: a method when attributes were gathered or `function`
\* follows, a constant otherwise
enum_member_dispatch ==
    /\ pc \in {"unit_enum_member:80", "backed_enum_member:134"}
    /\ IF local.has_attributes \/ current = "function"
       THEN IF Valid("enum_method_group", local.modifiers)
            THEN Goto("method:function",
                      [local EXCEPT !.group = Group("enum_method_group", local.modifiers)])
            ELSE Throw("ModifierError")
       ELSE IF Valid("constant_group", local.modifiers)
            THEN Goto("constant:392",
                      [local EXCEPT !.group = Group("constant_group", local.modifiers)])
            ELSE Throw("ModifierError")

-----------------------------------------------------------------------------
(* constant, functions::method *)

ClassishConstant(end) ==
    [type |-> "ClassishConstant", start |-> local.start, end |-> end,
     name |-> local.name, value |-> local.value, modifiers |-> local.group]

\* lines 387-409
constant ==
    \/ /\ pc = "constant:392"
       /\ Consume("constant:394", local)
    \/ /\ pc = "constant:394"
       /\ IF Kind(current) = "Identifier"
          THEN Consume("constant:396", [local EXCEPT !.name = current])
          ELSE Throw("ExpectedToken")
    \/ /\ pc = "constant:396"
       /\ IF current = "="
          THEN Consume("constant:398", local)
          ELSE Throw("ExpectedToken")
    \/ /\ pc = "constant:398"
       /\ IF Kind(current) = "Literal"
          THEN Consume("constant:400", [local EXCEPT !.value = current])
          ELSE Throw("ExpectedToken")
    \/ /\ pc = "constant:400"
       /\ IF current = ";"
          THEN Return(ClassishConstant(pos), local)
          ELSE Throw("ExpectedToken")

Method ==
    [type |-> "Method", start |-> local.start, name |-> local.name,
     modifiers |-> local.group, attributes |-> local.attributes]

\* functions::method: `function name ( )`, then a body, or the terminator in
\* an interface
method ==
    \/ /\ pc = "method:function"
       /\ IF current = "function"
          THEN Consume("method:name", local)
          ELSE Throw("ExpectedToken")
    \/ /\ pc = "method:name"
       /\ IF Kind(current) = "Identifier"
          THEN Consume("method:(", [local EXCEPT !.name = current])
          ELSE Throw("ExpectedToken")
    \/ /\ pc = "method:("
       /\ IF current = "("
          THEN Consume("method:)", local)
          ELSE Throw("ExpectedToken")
    \/ /\ pc = "method:)"
       /\ IF current = ")"
          THEN Consume("method:body", local)
          ELSE Throw("ExpectedToken")
    \/ /\ pc = "method:body"
       /\ IF fn = "interface_statement"
          THEN IF current = ";" THEN Return(Method, local) ELSE Throw("ExpectedToken")
          ELSE IF current = "{"
               THEN Consume("method:}", local)
               ELSE Throw("ExpectedToken")
    \/ /\ pc = "method:}"
       /\ IF current = "}"
          THEN Return(Method, local)
          ELSE Throw("ExpectedToken")

-----------------------------------------------------------------------------
(* parse_classish_uses *)

TraitUse ==
    [type |-> "TraitUse", traits |-> local.traits,
     adaptations |-> local.adaptations]

\* a trait-name list that tolerates a trailing comma
TrailingComma_Tolerated(pk) == FALSE

\* lines 256-267: a comma after a trait name is consumed unless the
\* terminator or the block opener follows it
TrailingComma(pk) == pk \in {";", "{"}

\* lines 248-271: the trait-name list
uses_names ==
    \/ /\ pc = "parse_classish_uses:248"
       /\ Consume("parse_classish_uses:252", local)
    \/ /\ pc = "parse_classish_uses:252"
       /\ IF current # ";" /\ current # "{"
          THEN IF Kind(current) = "Identifier"
               THEN Consume("parse_classish_uses:256",
                            [local EXCEPT !.traits = Append(@, current)])
               ELSE Throw("ExpectedToken")
          ELSE Goto("parse_classish_uses:274", local)
    \/ /\ pc = "parse_classish_uses:256"
       /\ IF current = ","
          THEN \E pk \in Lexer(tokens) :
                  \* utils::skip_semicolon / utils::skip_left_brace run on the
                  \* comma and fail
                  IF TrailingComma(pk) /\ current # pk
                  THEN ThrowPeeked(pk, "ExpectedToken")
                  ELSE ConsumePeeked(pk, "parse_classish_uses:252", local)
          ELSE Goto("parse_classish_uses:274", local)

\* lines 273-275, 376-385: the block opener, or the terminator and the result
uses_block ==
    /\ pc = "parse_classish_uses:274"
    /\ IF current = "{"
       THEN Consume("parse_classish_uses:277", local)
       ELSE IF current = ";"
       THEN Return(TraitUse, local)
       ELSE Throw("ExpectedToken")

\* lines 277-286, 376-385: the closing brace and the result, or the method
\* reference of the next rule
adaptation_method ==
    \/ /\ pc = "parse_classish_uses:277"
       /\ IF current = "}"
          THEN Return(TraitUse, local)
          ELSE \E pk \in Lexer(tokens) :
                  IF Kind(current) # "Identifier"
                  THEN ThrowPeeked(pk, "ExpectedToken")
                  ELSE IF pk = "::"
                  THEN ConsumePeeked(pk, "parse_classish_uses:281",
                                     [local EXCEPT !.trait = current,
                                                   !.method = None])
                  ELSE ConsumePeeked(pk, "parse_classish_uses:288",
                                     [local EXCEPT !.trait = None,
                                                   !.method = current])
    \/ /\ pc = "parse_classish_uses:281"
       /\ Consume("parse_classish_uses:282", local)
    \/ /\ pc = "parse_classish_uses:282"
       /\ IF Kind(current) = "Identifier"
          THEN Consume("parse_classish_uses:288", [local EXCEPT !.method = current])
          ELSE Throw("ExpectedToken")

\* line 288: expect_token!([As, Insteadof])
adaptation_kind ==
    /\ pc = "parse_classish_uses:288"
    /\ IF current = "as"
       THEN Consume("parse_classish_uses:290", local)
       ELSE IF current = "insteadof"
       THEN Consume("parse_classish_uses:337", local)
       ELSE Throw("ExpectedToken")

\* lines 309-313
VisibilityAdaptation(trait, method_name, visibility) ==
    [kind |-> "Visibility", trait |-> trait, method |-> method_name,
     visibility |-> visibility]

\* an Alias adaptation that loses the visibility written before the alias
AliasAdaptation_VisibilityLost(trait, method_name, alias, visibility) ==
    [kind |-> "Alias", trait |-> trait, method |-> method_name,
     alias |-> alias, visibility |-> None]

\* lines 316-321, 326-331
AliasAdaptation(trait, method_name, alias, visibility) ==
    [kind |-> "Alias", trait |-> trait, method |-> method_name,
     alias |-> alias, visibility |-> visibility]

\* lines 365-369
PrecedenceAdaptation(trait, method_name, insteadof) ==
    [kind |-> "Precedence", trait |-> trait, method |-> method_name,
     insteadof |-> insteadof]

\* lines 308-322: after `as <visibility>`, the terminator makes a Visibility
\* adaptation and anything else must be an alias
AfterVisibility(token) ==
    IF token = ";" THEN "Visibility"
    ELSE IF Kind(token) = "Identifier" THEN "Alias"
    ELSE "ExpectedToken"

\* lines 289-334: the rule after `as`
adaptation_as ==
    \/ /\ pc = "parse_classish_uses:290"
       /\ IF current \in Visibilities
          THEN Consume("parse_classish_uses:308", [local EXCEPT !.visibility = current])
          ELSE IF Kind(current) = "Identifier"
          THEN Consume("parse_classish_uses:373",
                       [local EXCEPT !.adaptations =
                           Append(@, AliasAdaptation(local.trait, local.method,
                                                     current, None))])
          ELSE Throw("ExpectedToken")
    \/ /\ pc = "parse_classish_uses:308"
       /\ LET outcome == AfterVisibility(current) IN
          IF outcome = "Visibility"
          THEN Goto("parse_classish_uses:373",
                    [local EXCEPT !.adaptations =
                        Append(@, VisibilityAdaptation(local.trait, local.method,
                                                       local.visibility))])
          ELSE IF outcome = "Alias"
          THEN Consume("parse_classish_uses:373",
                       [local EXCEPT !.adaptations =
                           Append(@, AliasAdaptation(local.trait, local.method,
                                                     current, local.visibility))])
          ELSE Throw("ExpectedToken")

\* lines 335-370: the rule after `insteadof`
adaptation_insteadof ==
    \/ /\ pc = "parse_classish_uses:337"
       /\ IF Kind(current) = "Identifier"
          THEN Consume("parse_classish_uses:339", [local EXCEPT !.insteadof = <<current>>])
          ELSE Throw("ExpectedToken")
    \/ /\ pc = "parse_classish_uses:339"
       /\ IF current = ","
          THEN \E pk \in Lexer(tokens) :
                  \* utils::skip_semicolon runs on the comma and fails
                  IF pk = ";" /\ current # ";"
                  THEN ThrowPeeked(pk, "ExpectedToken")
                  ELSE ConsumePeeked(pk, "parse_classish_uses:348", local)
          ELSE Goto("parse_classish_uses:365", local)
    \/ /\ pc = "parse_classish_uses:348"
       /\ IF current # ";"
          THEN IF Kind(current) = "Identifier"
               THEN Consume("parse_classish_uses:351",
                            [local EXCEPT !.insteadof = Append(@, current)])
               ELSE Throw("ExpectedToken")
          ELSE Goto("parse_classish_uses:365", local)
    \/ /\ pc = "parse_classish_uses:351"
       /\ IF current = ","
          THEN \E pk \in Lexer(tokens) :
                  IF pk = ";" /\ current # ";"
                  THEN ThrowPeeked(pk, "ExpectedToken")
                  ELSE ConsumePeeked(pk, "parse_classish_uses:348", local)
          ELSE Goto("parse_classish_uses:365", local)
    \/ /\ pc = "parse_classish_uses:365"
       /\ Goto("parse_classish_uses:373",
               [local EXCEPT !.adaptations =
                   Append(@, PrecedenceAdaptation(local.trait, local.method,
                                                  local.insteadof))])

\* line 373: the terminator of a rule
adaptation_end ==
    /\ pc = "parse_classish_uses:373"
    /\ IF current = ";"
       THEN Consume("parse_classish_uses:277", local)
       ELSE Throw("ExpectedToken")

-----------------------------------------------------------------------------

Init ==
    /\ tokens \in {<<t>> : t \in Alphabet}
    /\ pos = 1
    /\ \E e \in EntryPoints : fn = e[1] /\ scope = e[2]
    /\ pc = "gather_attributes"
    /\ local = NoLocals
    /\ result = [kind |-> "None"]

Next ==
    \/ (gather_attributes /\ UNCHANGED <<scope, fn>>)
    \/ (start_span /\ UNCHANGED <<scope, fn>>)
    \/ (collect /\ UNCHANGED <<scope, fn>>)
    \/ (class_like_statement_dispatch /\ UNCHANGED <<scope, fn>>)
    \/ (property_type /\ UNCHANGED <<scope, fn>>)
    \/ (property_var /\ UNCHANGED <<scope, fn>>)
    \/ (property_value /\ UNCHANGED <<scope, fn>>)
    \/ (property_validate /\ UNCHANGED <<scope, fn>>)
    \/ (interface_statement_dispatch /\ UNCHANGED <<scope, fn>>)
    \/ (unit_enum_case /\ UNCHANGED <<scope, fn>>)
    \/ (backed_enum_case /\ UNCHANGED <<scope, fn>>)
    \/ (enum_member_dispatch /\ UNCHANGED <<scope, fn>>)
    \/ (constant /\ UNCHANGED <<scope, fn>>)
    \/ (method /\ UNCHANGED <<scope, fn>>)
    \/ (uses_names /\ UNCHANGED <<scope, fn>>)
    \/ (uses_block /\ UNCHANGED <<scope, fn>>)
    \/ (adaptation_method /\ UNCHANGED <<scope, fn>>)
    \/ (adaptation_kind /\ UNCHANGED <<scope, fn>>)
    \/ (adaptation_as /\ UNCHANGED <<scope, fn>>)
    \/ (adaptation_insteadof /\ UNCHANGED <<scope, fn>>)
    \/ (adaptation_end /\ UNCHANGED <<scope, fn>>)

Spec == Init /\ [][Next]_vars

-----------------------------------------------------------------------------
(* Properties *)

Done == pc = "done"
Failed(error) == Done /\ result.kind = "Err" /\ result.error = error
Returned(type) == Done /\ result.kind = "Ok" /\ result.statement.type = type
Last(s) == s[Len(s)]

ForbiddenTypes == {"callable", "never"}

\* the earliest violated property rule in the order (a), (b), (c), (d)
EarliestViolation ==
    LET readonly == "readonly" \in Range(local.modifiers)
        static == "static" \in Range(local.modifiers)
    IN  IF readonly /\ static THEN "StaticPropertyUsingReadonlyModifier"
        ELSE IF readonly /\ local.value # None THEN "ReadonlyPropertyHasDefaultValue"
        ELSE IF local.ty \in ForbiddenTypes THEN "ForbiddenTypeUsedInProperty"
        ELSE IF readonly /\ local.ty = None THEN "MissingTypeForReadonlyProperty"
        ELSE None

\* C1: a property that reaches the validation step and violates one or more
\* of the four rules fails with the earliest violated rule in the order
\* readonly+static, readonly+default, forbidden type, readonly without type;
\* readonly+static fails with the readonly/static conflict whatever the type
\* and the default value are.
C1_ValidationOrder ==
    [][pc = "class_like_statement:191" =>
        /\ EarliestViolation # None =>
              /\ pc' = "done"
              /\ result'.kind = "Err"
              /\ result'.error = EarliestViolation
        /\ {"readonly", "static"} \subseteq Range(local.modifiers) =>
              /\ result'.kind = "Err"
              /\ result'.error = "StaticPropertyUsingReadonlyModifier"]_vars

C1_Witness ==
    /\ Failed("StaticPropertyUsingReadonlyModifier")
    /\ local.ty = "callable"
    /\ local.value # None

\* C2 as stated: a property whose declared type is callable-shaped or the
\* bottom type always fails with ForbiddenTypeUsedInProperty, whatever its
\* modifiers and default value are.
C2_AlwaysForbiddenType ==
    [][pc = "class_like_statement:191" /\ local.ty \in ForbiddenTypes =>
        /\ result'.kind = "Err"
        /\ result'.error = "ForbiddenTypeUsedInProperty"]_vars

\* C2 amended: a property whose declared type is callable-shaped or the
\* bottom type always fails: with the readonly/static conflict when it is
\* readonly and static, else with the readonly/default conflict when it is
\* readonly with a default value, and with ForbiddenTypeUsedInProperty in
\* every other case; an ordinary named type never fails with
\* ForbiddenTypeUsedInProperty.
C2_ForbiddenType ==
    [][pc = "class_like_statement:191" =>
        LET readonly == "readonly" \in Range(local.modifiers)
            static == "static" \in Range(local.modifiers)
        IN  /\ local.ty \in ForbiddenTypes =>
                  /\ result'.kind = "Err"
                  /\ result'.error =
                        IF readonly /\ static
                        THEN "StaticPropertyUsingReadonlyModifier"
                        ELSE IF readonly /\ local.value # None
                        THEN "ReadonlyPropertyHasDefaultValue"
                        ELSE "ForbiddenTypeUsedInProperty"
            /\ local.ty \notin ForbiddenTypes =>
                  ~(result'.kind = "Err"
                        /\ result'.error = "ForbiddenTypeUsedInProperty")]_vars

C2_Witness ==
    /\ Failed("ForbiddenTypeUsedInProperty")
    /\ local.ty = "never"
    /\ "readonly" \in Range(local.modifiers)

\* the input starts `case <name>`: no attributes, the case keyword, a name
CaseInput(entry) ==
    /\ fn = entry
    /\ Len(tokens) >= 3
    /\ tokens[1] = "case"
    /\ Kind(tokens[2]) = "Identifier"

\* C3: in a unit enum, `case <name> =` fails with CaseValueForUnitEnum at the
\* `=` and `case <name> ;` returns a Case with that name and no value.
C3_UnitEnumCase ==
    Done /\ CaseInput("unit_enum_member") =>
        /\ tokens[3] = "=" =>
              /\ Failed("CaseValueForUnitEnum")
              /\ result.span = 3
              /\ result.case = tokens[2]
        /\ tokens[3] = ";" =>
              /\ Returned("Case")
              /\ result.statement.name = tokens[2]
              /\ "value" \notin DOMAIN result.statement

C3_Witness ==
    /\ Done
    /\ CaseInput("unit_enum_member")
    /\ tokens[3] = "="
    /\ Failed("CaseValueForUnitEnum")

\* the input starts `case <name> = <value>`
CaseValueInput ==
    /\ CaseInput("backed_enum_member")
    /\ Len(tokens) >= 4
    /\ tokens[3] = "="
    /\ Kind(tokens[4]) = "Literal"

\* C4 as stated: in a backed enum, a case whose name is not followed by
\* `= <value>` always fails with MissingCaseValueForBackedEnum.
C4_NoValueAlwaysMissingValue ==
    Done /\ CaseInput("backed_enum_member") /\ ~CaseValueInput =>
        Failed("MissingCaseValueForBackedEnum")

\* C4 amended: in a backed enum, a case whose name is immediately followed by
\* the terminator always fails with MissingCaseValueForBackedEnum; a name
\* followed by any other token than `=` or by `=` without an expression
\* fails with an unexpected-token error; `case X = <expr>;` returns a Case
\* whose value is the expression after `=`; no Case is returned without a
\* value.
C4_BackedEnumCase ==
    /\ Done /\ CaseInput("backed_enum_member") =>
          /\ tokens[3] = ";" =>
                /\ Failed("MissingCaseValueForBackedEnum")
                /\ result.span = 3
                /\ result.case = tokens[2]
          /\ tokens[3] \notin {";", "="} =>
                Failed("ExpectedToken") /\ result.span = 3
          /\ tokens[3] = "=" /\ ~CaseValueInput =>
                Failed("ExpectedToken") /\ result.span = 4
          /\ CaseValueInput /\ Len(tokens) >= 5 /\ tokens[5] = ";" =>
                /\ Returned("Case")
                /\ result.statement.name = tokens[2]
                /\ result.statement.value = tokens[4]
    /\ fn = "backed_enum_member" /\ Returned("Case") =>
          /\ "value" \in DOMAIN result.statement
          /\ result.statement.value # None

C4_Witness ==
    /\ CaseInput("backed_enum_member")
    /\ tokens[3] = ";"
    /\ Failed("MissingCaseValueForBackedEnum")

\* index of the `use` keyword when the call is a trait use
UseAt == Len(local.modifiers) + 1

\* class_like_statement has routed the call to parse_classish_uses
UsesCall ==
    /\ fn = "class_like_statement"
    /\ ~local.has_attributes
    /\ (Done \/ pc \in {"parse_classish_uses:252", "parse_classish_uses:256",
                        "parse_classish_uses:274", "parse_classish_uses:277",
                        "parse_classish_uses:281", "parse_classish_uses:282",
                        "parse_classish_uses:288", "parse_classish_uses:290",
                        "parse_classish_uses:308", "parse_classish_uses:337",
                        "parse_classish_uses:339", "parse_classish_uses:348",
                        "parse_classish_uses:351", "parse_classish_uses:365",
                        "parse_classish_uses:373"})
    /\ Len(tokens) > UseAt
    /\ tokens[UseAt] = "use"

\* tokens i..j are names separated by single commas
NameList(i, j) ==
    /\ i <= j
    /\ (j - i) % 2 = 0
    /\ \A k \in i..j :
          IF (k - i) % 2 = 0 THEN Kind(tokens[k]) = "Identifier" ELSE tokens[k] = ","

Names(i, j) == [n \in 1..((j - i) \div 2 + 1) |-> tokens[i + 2 * (n - 1)]]

\* the comma at i is a trailing comma: the terminator follows it, or the
\* block opener follows it in the trait-name list
TrailingCommaAt(i) ==
    /\ i < Len(tokens)
    /\ tokens[i] = ","
    /\ \/ tokens[i + 1] = ";"
       \/ tokens[i + 1] = "{" /\ \A k \in 1..i : tokens[k] # "{"

ReferenceTrait(i) == IF tokens[i - 1] = "::" THEN tokens[i - 2] ELSE None

Count(token, n) == Cardinality({i \in 1..n : tokens[i] = token})

\* C6: after `[Trait::]method as`, a visibility keyword followed by the
\* terminator gives a Visibility adaptation with no alias, a visibility
\* keyword followed by a name gives an Alias with both, and a name alone
\* gives an Alias with no visibility; each keeps the method reference, and
\* each rule appends exactly one adaptation.
C6_AsAdaptations ==
    /\ pc = "parse_classish_uses:373" =>
          LET a == Last(local.adaptations) IN
          /\ Len(local.adaptations) = 1 + Count(";", pos - 1)
          /\ tokens[pos - 2] = "as" /\ tokens[pos - 1] \in Visibilities =>
                /\ current = ";"
                /\ a = [kind |-> "Visibility", trait |-> ReferenceTrait(pos - 3),
                        method |-> tokens[pos - 3], visibility |-> tokens[pos - 1]]
          /\ tokens[pos - 3] = "as" /\ tokens[pos - 2] \in Visibilities =>
                a = [kind |-> "Alias", trait |-> ReferenceTrait(pos - 4),
                     method |-> tokens[pos - 4], alias |-> tokens[pos - 1],
                     visibility |-> tokens[pos - 2]]
          /\ tokens[pos - 2] = "as" /\ tokens[pos - 1] \notin Visibilities =>
                a = [kind |-> "Alias", trait |-> ReferenceTrait(pos - 3),
                     method |-> tokens[pos - 3], alias |-> tokens[pos - 1],
                     visibility |-> None]
    /\ UsesCall /\ Returned("TraitUse") =>
          Len(result.statement.adaptations) = Count(";", pos - 2)

C6_Witness ==
    /\ Returned("TraitUse")
    /\ result.statement.traits = <<"A">>
    /\ Len(result.statement.adaptations) = 1
    /\ result.statement.adaptations[1].kind = "Alias"
    /\ result.statement.adaptations[1].visibility = "protected"
    /\ result.statement.adaptations[1].alias = "B"
    /\ result.statement.adaptations[1].method = "A"
    /\ result.statement.adaptations[1].trait = "B"

\* C7: every Precedence adaptation of a returned TraitUse carries a trait
\* qualifier and a non-empty insteadof list.
C7_PrecedenceShape ==
    Returned("TraitUse") =>
        \A i \in 1..Len(result.statement.adaptations) :
            LET a == result.statement.adaptations[i] IN
            a.kind = "Precedence" => a.trait # None /\ a.insteadof # <<>>

\* C8: whenever a constant is returned, the token the constant helper
\* consumed first (the token after the modifiers) was the const keyword.
C8_ConstKeywordConsumed ==
    Returned("ClassishConstant") =>
        tokens[result.statement.start
                   + Cardinality(result.statement.modifiers.modifiers)] = "const"

\* C9: every returned TraitUse holds at least one trait name.
C9_TraitListNonEmpty ==
    Returned("TraitUse") => result.statement.traits # <<>>

\* C10: every member class_like_statement returns had its collected
\* modifiers passed through a validator; a TraitUse is returned only when no
\* modifier preceded `use`.
C10_ModifiersValidated ==
    fn = "class_like_statement" /\ Done /\ result.kind = "Ok" =>
        \/ local.group # None
        \/ local.modifiers = <<>>

====
